---------------------------- MODULE Spec2Model ----------------------------
(***************************************************************************)
(* Model of the cacherno cache library: the LRU engine (lru/lru.go) and    *)
(* the LFU engine (lfu/lfu.go).                                            *)
(*                                                                         *)
(* Entries live in a heap of node ids; a *entry pointer is a node id or    *)
(* Nil.  The `any` fields of frequencyNode hold either the nil interface   *)
(* (NilIface) or a typed *entry pointer, which may itself be Nil: Go       *)
(* compares an interface holding a typed nil pointer as different from     *)
(* nil.  A run-time panic (nil pointer dereference) sets `panicked` and    *)
(* ends the program.                                                       *)
(***************************************************************************)
EXTENDS Integers, Sequences, FiniteSets, TLC

\* ------------------------------------------------------------------ bounds
NKeys == 3
NVals == 2
MaxCap == 2
MaxFreq == 3
NThreads == 2
MaxCalls == 2

Keys == 1..NKeys
Values == 1..NVals
Caps == 1..MaxCap
NNodes == NKeys + 1
NodeIds == 1..NNodes
Threads == 1..NThreads
\* no frequency exceeds MaxFreq when calls are issued one at a time (Promotable)
\* nor, with threads, the number of calls made
FreqTop == IF MaxFreq > NThreads * MaxCalls THEN MaxFreq ELSE NThreads * MaxCalls
Freqs == 0..FreqTop

\* the nil *entry pointer, and the nil interface value of an `any` field
Nil == 0
NilIface == -1
\* zero values of K and V in a freshly allocated or collected entry
NoKey == 0
ZeroV == 0

VARIABLES
  engine,   \* "lru" or "lfu": which engine the program uses
  phase,    \* "new", then "ready" or "failed" (NewCache), then maybe "panicked"
  lru,      \* the lru.Cache and its entries
  lfu,      \* the lfu.Cache, its entries and its frequency nodes
  last,     \* the last call: its arguments, its results, what it did to the index
  mru,      \* reference: the present keys in eviction order, next victim last
  uses,     \* reference: per present key, 1 + hits since it was inserted
  ref,      \* reference map: per key the value of its latest Add, ZeroV if none
  lock,     \* the cache's sync.RWMutex: the writer holding it, the readers
  pc,       \* per thread: where it is in its current call
  req,      \* per thread: the current call, its arguments and local variables
  calls     \* per thread: the number of calls it has made

seqvars == <<last, mru, uses, ref>>
concvars == <<lock, pc, req, calls>>
vars == <<engine, phase, lru, lfu, last, mru, uses, ref, lock, pc, req, calls>>

\* ------------------------------------------------------------ lru/lru.go

\* lru.NewCache(capacity) with capacity > 0
LruNew(cap) ==
  [ data     |-> [k \in Keys |-> Nil],
    capacity |-> cap,
    head     |-> Nil,
    tail     |-> Nil,
    key      |-> [n \in NodeIds |-> NoKey],
    value    |-> [n \in NodeIds |-> ZeroV],
    prev     |-> [n \in NodeIds |-> Nil],
    next     |-> [n \in NodeIds |-> Nil] ]

\* the keys of c.data, and len(c.data)
LruKeys(c) == {k \in Keys : c.data[k] # Nil}
LruLen(c) == Cardinality(LruKeys(c))

RECURSIVE Closure(_, _, _)
Closure(prev, next, S) ==
  LET T == (S \cup {prev[n] : n \in S} \cup {next[n] : n \in S}) \ {Nil}
  IN  IF T = S THEN S ELSE Closure(prev, next, T)

\* the entries the program can still reach from the cache
LruReachable(c) ==
  Closure(c.prev, c.next, ({c.data[k] : k \in Keys} \cup {c.head, c.tail}) \ {Nil})

\* unreachable entries are garbage: their memory is zeroed
LruCollect(c) ==
  LET live == LruReachable(c)
  IN  [c EXCEPT !.key   = [n \in NodeIds |-> IF n \in live THEN c.key[n] ELSE NoKey],
                !.value = [n \in NodeIds |-> IF n \in live THEN c.value[n] ELSE ZeroV],
                !.prev  = [n \in NodeIds |-> IF n \in live THEN c.prev[n] ELSE Nil],
                !.next  = [n \in NodeIds |-> IF n \in live THEN c.next[n] ELSE Nil]]

LruFree(c) == NodeIds \ LruReachable(c)

\* the address of a new entry for `key`: any address not in use will do; the
\* model takes the one numbered like the key when it is free, else the lowest
Fresh(free, key) ==
  IF key \in free THEN key ELSE CHOOSE n \in free : \A m \in free : n <= m

\* mutant: the old head is not linked back to the new one
addToFrontNoBackLink(c, node) ==
  IF c.head = Nil
  THEN [c EXCEPT !.head = node, !.tail = node]
  ELSE [c EXCEPT !.next[node] = c.head,
                 !.prev[node] = Nil,
                 !.head = node]

addToFront(c, node) ==
  IF c.head = Nil
  THEN [c EXCEPT !.head = node, !.tail = node]
  ELSE [c EXCEPT !.next[node] = c.head,
                 !.prev[node] = Nil,
                 !.prev[c.head] = node,
                 !.head = node]

removeFromList(c, node) ==
  LET c1 == IF c.prev[node] # Nil
            THEN [c EXCEPT !.next[c.prev[node]] = c.next[node]]
            ELSE [c EXCEPT !.head = c.next[node]]
  IN  IF c1.next[node] # Nil
      THEN [c1 EXCEPT !.prev[c1.next[node]] = c1.prev[node]]
      ELSE [c1 EXCEPT !.tail = c1.prev[node]]

\* mutant: a hit does not promote the entry
moveToFrontStays(c, node) == c

moveToFront(c, node) ==
  IF node = c.head THEN c ELSE addToFront(removeFromList(c, node), node)

\* mutant: the tail is unlinked but its key stays in the index
removeTailKeepsKey(c) ==
  IF c.tail # Nil THEN removeFromList(c, c.tail) ELSE c

removeTail(c) ==
  IF c.tail # Nil
  THEN removeFromList([c EXCEPT !.data[c.key[c.tail]] = Nil], c.tail)
  ELSE c

\* mutant: Remove leaves the entry in the list
removeNodeStays(c, node) == c

removeNode(c, node) == removeFromList(c, node)

\* the body of lru Cache.Add, between Lock and Unlock
LruAddBody(c, key, value) ==
  IF c.data[key] # Nil
  THEN LET node == c.data[key]
       IN  [c |-> moveToFront([c EXCEPT !.value[node] = value], node),
            evicted |-> FALSE, rewritten |-> TRUE]
  ELSE LET node == Fresh(LruFree(c), key)
           c1 == [c EXCEPT !.key[node] = key, !.value[node] = value,
                           !.prev[node] = Nil, !.next[node] = Nil,
                           !.data[key] = node]
           c2 == addToFront(c1, node)
       IN  IF LruLen(c2) > c2.capacity
           THEN [c |-> removeTail(c2), evicted |-> TRUE, rewritten |-> FALSE]
           ELSE [c |-> c2, evicted |-> FALSE, rewritten |-> FALSE]

\* the body of lru Cache.Get, between RLock and RUnlock
LruGetBody(c, key) ==
  IF c.data[key] # Nil
  THEN LET node == c.data[key]
       IN  [c |-> moveToFront(c, node), value |-> c.value[node], found |-> TRUE]
  ELSE [c |-> c, value |-> ZeroV, found |-> FALSE]

\* the body of lru Cache.Remove, between Lock and Unlock
LruRemoveBody(c, key) ==
  IF c.data[key] # Nil
  THEN [c |-> [removeNode(c, c.data[key]) EXCEPT !.data[key] = Nil], removed |-> TRUE]
  ELSE [c |-> c, removed |-> FALSE]

\* ------------------------------------------------------------ lfu/lfu.go

\* c.frequencies[f] when no frequencyNode is stored under f
NoBucket == [present |-> FALSE, freq |-> 0, head |-> NilIface, tail |-> NilIface]

\* lfu.NewCache(capacity) with capacity > 0
LfuNew(cap) ==
  [ data         |-> [k \in Keys |-> Nil],
    frequencies  |-> [f \in Freqs |-> NoBucket],
    capacity     |-> cap,
    minFrequency |-> 0,
    key          |-> [n \in NodeIds |-> NoKey],
    value        |-> [n \in NodeIds |-> ZeroV],
    frequency    |-> [n \in NodeIds |-> 0],
    prev         |-> [n \in NodeIds |-> Nil],
    next         |-> [n \in NodeIds |-> Nil],
    panicked     |-> FALSE ]

\* the keys of c.data, and len(c.data)
LfuKeys(c) == {k \in Keys : c.data[k] # Nil}
LfuLen(c) == Cardinality(LfuKeys(c))

\* the entries the program can still reach from the cache
LfuReachable(c) ==
  Closure(c.prev, c.next,
          ({c.data[k] : k \in Keys}
             \cup {c.frequencies[f].head : f \in Freqs}
             \cup {c.frequencies[f].tail : f \in Freqs}) \ {Nil, NilIface})

\* unreachable entries are garbage: their memory is zeroed
LfuCollect(c) ==
  LET live == LfuReachable(c)
  IN  [c EXCEPT !.key   = [n \in NodeIds |-> IF n \in live THEN c.key[n] ELSE NoKey],
                !.value = [n \in NodeIds |-> IF n \in live THEN c.value[n] ELSE ZeroV],
                !.frequency = [n \in NodeIds |-> IF n \in live THEN c.frequency[n] ELSE 0],
                !.prev  = [n \in NodeIds |-> IF n \in live THEN c.prev[n] ELSE Nil],
                !.next  = [n \in NodeIds |-> IF n \in live THEN c.next[n] ELSE Nil]]

LfuFree(c) == NodeIds \ LfuReachable(c)

\* a nil pointer dereference: the run-time panic
Panic(c) == [c EXCEPT !.panicked = TRUE]

addToFrequency(c, node, freq) ==
  LET c1 == IF ~c.frequencies[freq].present
            THEN [c EXCEPT !.frequencies[freq] =
                     [present |-> TRUE, freq |-> freq, head |-> NilIface, tail |-> NilIface]]
            ELSE c
      freqNode == c1.frequencies[freq]
  IN  IF freqNode.head = NilIface
      THEN [c1 EXCEPT !.frequencies[freq].head = node,
                      !.frequencies[freq].tail = node]
      ELSE LET c2 == [c1 EXCEPT !.next[node] = freqNode.head]
           IN  IF freqNode.head = Nil
               THEN Panic(c2)
               ELSE [c2 EXCEPT !.prev[freqNode.head] = node,
                               !.frequencies[freq].head = node]

removeFromFrequency(c, node) ==
  IF node = Nil THEN Panic(c)
  ELSE
  LET f == c.frequency[node]
  IN  IF ~c.frequencies[f].present THEN c
      ELSE
      LET c1 == IF c.prev[node] # Nil
                THEN [c EXCEPT !.next[c.prev[node]] = c.next[node]]
                ELSE [c EXCEPT !.frequencies[f].head = c.next[node]]
          c2 == IF c1.next[node] # Nil
                THEN [c1 EXCEPT !.prev[c1.next[node]] = c1.prev[node]]
                ELSE [c1 EXCEPT !.frequencies[f].tail = c1.prev[node]]
          c3 == IF c2.frequencies[f].head = NilIface
                THEN [c2 EXCEPT !.frequencies[f] = NoBucket]
                ELSE c2
      IN  [c3 EXCEPT !.prev[node] = Nil, !.next[node] = Nil]

\* mutant: the entry moves to the next bucket but keeps its old frequency
setFrequencyKeeps(c, node, newFreq) == addToFrequency(c, node, newFreq)

\* node.frequency = newFreq; c.addToFrequency(node, newFreq)
setFrequency(c, node, newFreq) ==
  addToFrequency([c EXCEPT !.frequency[node] = newFreq], node, newFreq)

\* if oldFreq == c.minFrequency && c.frequencies[oldFreq] == nil { ... }
advanceMin(c, oldFreq, newFreq) ==
  IF oldFreq = c.minFrequency /\ ~c.frequencies[oldFreq].present
  THEN [c EXCEPT !.minFrequency = newFreq]
  ELSE c

incrementFrequency(c, node) ==
  LET oldFreq == c.frequency[node]
      newFreq == oldFreq + 1
      c1 == removeFromFrequency(c, node)
      c3 == setFrequency(c1, node, newFreq)
  IN  IF c1.panicked THEN c1
      ELSE IF c3.panicked THEN c3
      ELSE advanceMin(c3, oldFreq, newFreq)

\* mutant: the victim leaves its bucket but its key stays in the index
evictKeepsKey(c) ==
  IF LfuLen(c) = 0 THEN c
  ELSE
  LET freqNode == c.frequencies[c.minFrequency]
  IN  IF ~freqNode.present \/ freqNode.tail = NilIface THEN c
      ELSE removeFromFrequency(c, freqNode.tail)

evictLeastFrequent(c) ==
  IF LfuLen(c) = 0 THEN c
  ELSE
  LET freqNode == c.frequencies[c.minFrequency]
  IN  IF ~freqNode.present \/ freqNode.tail = NilIface THEN c
      ELSE
      LET leastFreqNode == freqNode.tail
          c1 == removeFromFrequency(c, leastFreqNode)
      IN  IF c1.panicked THEN c1
          ELSE [c1 EXCEPT !.data[c1.key[leastFreqNode]] = Nil]

\* the body of lfu Cache.Add, between Lock and Unlock
LfuAddBody(c, key, value) ==
  IF c.data[key] # Nil
  THEN LET node == c.data[key]
       IN  [c |-> incrementFrequency([c EXCEPT !.value[node] = value], node),
            evicted |-> FALSE, rewritten |-> TRUE]
  ELSE LET full == LfuLen(c) >= c.capacity
           c1 == IF full THEN evictLeastFrequent(c) ELSE c
           newNode == Fresh(LfuFree(c1), key)
           c2 == [c1 EXCEPT !.key[newNode] = key, !.value[newNode] = value,
                            !.frequency[newNode] = 1,
                            !.prev[newNode] = Nil, !.next[newNode] = Nil,
                            !.data[key] = newNode]
           c3 == addToFrequency(c2, newNode, 1)
       IN  IF c1.panicked
           THEN [c |-> c1, evicted |-> FALSE, rewritten |-> FALSE]
           ELSE IF c3.panicked
           THEN [c |-> c3, evicted |-> full, rewritten |-> FALSE]
           ELSE [c |-> [c3 EXCEPT !.minFrequency = 1],
                 evicted |-> full, rewritten |-> FALSE]

\* the body of lfu Cache.Get, between RLock and RUnlock
LfuGetBody(c, key) ==
  IF c.data[key] # Nil
  THEN LET node == c.data[key]
           c1 == incrementFrequency(c, node)
       IN  [c |-> c1, value |-> c1.value[node], found |-> TRUE]
  ELSE [c |-> c, value |-> ZeroV, found |-> FALSE]

\* the body of lfu Cache.Remove, between Lock and Unlock
LfuRemoveBody(c, key) ==
  IF c.data[key] # Nil
  THEN LET c1 == removeFromFrequency(c, c.data[key])
       IN  IF c1.panicked THEN [c |-> c1, removed |-> FALSE]
           ELSE [c |-> [c1 EXCEPT !.data[key] = Nil], removed |-> TRUE]
  ELSE [c |-> c, removed |-> FALSE]

\* --------------------------------------------- calls issued one at a time

\* before NewCache has returned a cache there is none
NoLru == LruNew(0)
NoLfu == LfuNew(0)

NoCall ==
  [op |-> "none", key |-> NoKey, value |-> ZeroV, returned |-> TRUE,
   evicted |-> FALSE, rewritten |-> FALSE, found |-> FALSE, got |-> ZeroV,
   removed |-> FALSE, err |-> FALSE,
   pre |-> {}, expect |-> NoKey, least |-> {}]

\* The record of a call: its arguments and the keys of the index before it
\* (pre).  For an Add of an absent key to a full index also the reference
\* victim (the last key of the reference order) and the keys that had the
\* fewest uses.
Call(op, key, value, pre, capacity) ==
  LET evicting == op = "Add" /\ key \notin pre /\ Cardinality(pre) >= capacity
  IN  [NoCall EXCEPT
         !.op = op, !.key = key, !.value = value, !.pre = pre,
         !.expect = IF evicting /\ mru # <<>> THEN mru[Len(mru)] ELSE NoKey,
         !.least = IF evicting
                   THEN {k \in pre : \A j \in pre : uses[k] <= uses[j]}
                   ELSE {}]

Range(s) == {s[i] : i \in 1..Len(s)}
Without(s, k) == SelectSeq(s, LAMBDA x : x # k)

\* reference recency order: a hit or an Add makes the key the most recent one,
\* and only keys still in the index are kept
Touch(s, k, present) == SelectSeq(<<k>> \o Without(s, k), LAMBDA x : x \in present)

\* reference map: an Add records the value and, when it evicts, forgets the
\* reference victim; a Remove forgets the key; a Get changes nothing
Record(m, call) ==
  [k \in Keys |-> IF k = call.key THEN call.value
                  ELSE IF k = call.expect THEN ZeroV
                  ELSE m[k]]
Forget(m, key) == [m EXCEPT ![key] = ZeroV]

\* sync.RWMutex: one writer (0: none) or any number of readers
Unlocked == [writer |-> 0, readers |-> {}]

NoReq == [op |-> "none", key |-> NoKey, value |-> ZeroV, node |-> Nil, oldFreq |-> 0]

Init ==
  /\ engine \in {"lru", "lfu"}
  /\ phase = "new"
  /\ lru = NoLru
  /\ lfu = NoLfu
  /\ last = NoCall
  /\ mru = <<>>
  /\ uses = [k \in Keys |-> 0]
  /\ ref = [k \in Keys |-> ZeroV]
  /\ lock = Unlocked
  /\ pc = [t \in Threads |-> "idle"]
  /\ req = [t \in Threads |-> NoReq]
  /\ calls = [t \in Threads |-> 0]

\* NewCache(capacity): an error and no cache when capacity <= 0
NewCache(capacity) ==
  /\ phase = "new"
  /\ IF capacity <= 0
     THEN /\ phase' = "failed"
          /\ UNCHANGED <<lru, lfu>>
     ELSE /\ phase' = "ready"
          /\ lru' = (IF engine = "lru" THEN LruNew(capacity) ELSE lru)
          /\ lfu' = (IF engine = "lfu" THEN LfuNew(capacity) ELSE lfu)
  /\ last' = [NoCall EXCEPT !.op = "NewCache", !.value = capacity, !.err = (capacity <= 0)]
  /\ UNCHANGED <<engine, mru, uses, ref>>
  /\ UNCHANGED concvars

LruAdd(key, value) ==
  /\ engine = "lru" /\ phase = "ready"
  /\ LruFree(lru) # {}
  /\ \E r \in {LruAddBody(lru, key, value)} :
         /\ lru' = LruCollect(r.c)
         /\ last' = [Call("Add", key, value, LruKeys(lru), lru.capacity) EXCEPT
                       !.evicted = r.evicted, !.rewritten = r.rewritten]
         /\ mru' = Touch(mru, key, LruKeys(r.c))
  /\ ref' = Record(ref, Call("Add", key, value, LruKeys(lru), lru.capacity))
  /\ UNCHANGED <<engine, phase, lfu, uses>>
  /\ UNCHANGED concvars

LruGet(key) ==
  /\ engine = "lru" /\ phase = "ready"
  /\ \E r \in {LruGetBody(lru, key)} :
         /\ lru' = LruCollect(r.c)
         /\ last' = [Call("Get", key, ZeroV, LruKeys(lru), lru.capacity) EXCEPT
                       !.found = r.found, !.got = r.value]
         /\ mru' = IF key \in Range(mru) THEN Touch(mru, key, LruKeys(r.c)) ELSE mru
  /\ UNCHANGED <<engine, phase, lfu, uses, ref>>
  /\ UNCHANGED concvars

LruRemove(key) ==
  /\ engine = "lru" /\ phase = "ready"
  /\ \E r \in {LruRemoveBody(lru, key)} :
         /\ lru' = LruCollect(r.c)
         /\ last' = [Call("Remove", key, ZeroV, LruKeys(lru), lru.capacity) EXCEPT
                       !.removed = r.removed]
         /\ mru' = Without(mru, key)
  /\ ref' = Forget(ref, key)
  /\ UNCHANGED <<engine, phase, lfu, uses>>
  /\ UNCHANGED concvars

\* reference LFU order: keys with more uses first and, among keys with equal
\* uses, the one that reached that count later first; the next victim is last
RECURSIVE Rank(_, _, _)
Rank(s, k, u) ==
  IF s = <<>> THEN <<k>>
  ELSE IF u[Head(s)] <= u[k] THEN <<k>> \o s
  ELSE <<Head(s)>> \o Rank(Tail(s), k, u)

TouchLfu(s, k, u, present) ==
  SelectSeq(Rank(Without(s, k), k, u), LAMBDA x : x \in present)

\* reference use counts: 1 on insertion, +1 per hit, none for absent keys
Count(u, k, present) ==
  [x \in Keys |-> IF x \notin present THEN 0
                  ELSE IF x = k THEN u[x] + 1 ELSE u[x]]

\* the model follows a key up to frequency MaxFreq
Promotable(c, key) ==
  IF c.data[key] = Nil THEN TRUE ELSE c.frequency[c.data[key]] < MaxFreq

LfuAdd(key, value) ==
  /\ engine = "lfu" /\ phase = "ready"
  /\ Promotable(lfu, key)
  /\ LfuFree(lfu) # {}
  /\ \E r \in {LfuAddBody(lfu, key, value)} :
         /\ lfu' = LfuCollect(r.c)
         /\ phase' = IF r.c.panicked THEN "panicked" ELSE phase
         /\ last' = [Call("Add", key, value, LfuKeys(lfu), lfu.capacity) EXCEPT
                                   !.returned = ~r.c.panicked,
                                   !.evicted = r.evicted, !.rewritten = r.rewritten]
         /\ uses' = Count(uses, key, LfuKeys(r.c))
         /\ mru' = TouchLfu(mru, key, [uses EXCEPT ![key] = @ + 1], LfuKeys(r.c))
  /\ ref' = Record(ref, Call("Add", key, value, LfuKeys(lfu), lfu.capacity))
  /\ UNCHANGED <<engine, lru>>
  /\ UNCHANGED concvars

LfuGet(key) ==
  /\ engine = "lfu" /\ phase = "ready"
  /\ Promotable(lfu, key)
  /\ \E r \in {LfuGetBody(lfu, key)} :
         /\ lfu' = LfuCollect(r.c)
         /\ phase' = IF r.c.panicked THEN "panicked" ELSE phase
         /\ last' = [Call("Get", key, ZeroV, LfuKeys(lfu), lfu.capacity) EXCEPT
                                   !.returned = ~r.c.panicked,
                                   !.found = r.found, !.got = r.value]
         /\ uses' = IF uses[key] > 0 THEN Count(uses, key, LfuKeys(r.c)) ELSE uses
         /\ mru' = IF key \in Range(mru)
                    THEN TouchLfu(mru, key, [uses EXCEPT ![key] = @ + 1], LfuKeys(r.c))
                    ELSE mru
  /\ UNCHANGED <<engine, lru, ref>>
  /\ UNCHANGED concvars

LfuRemove(key) ==
  /\ engine = "lfu" /\ phase = "ready"
  /\ \E r \in {LfuRemoveBody(lfu, key)} :
         /\ lfu' = LfuCollect(r.c)
         /\ phase' = IF r.c.panicked THEN "panicked" ELSE phase
         /\ last' = [Call("Remove", key, ZeroV, LfuKeys(lfu), lfu.capacity) EXCEPT
                                   !.returned = ~r.c.panicked, !.removed = r.removed]
         /\ uses' = [uses EXCEPT ![key] = 0]
         /\ mru' = Without(mru, key)
  /\ ref' = Forget(ref, key)
  /\ UNCHANGED <<engine, lru>>
  /\ UNCHANGED concvars

Next ==
  \/ \E capacity \in 0..MaxCap : NewCache(capacity)
  \/ \E key \in Keys, value \in Values : LruAdd(key, value)
  \/ \E key \in Keys : LruGet(key)
  \/ \E key \in Keys : LruRemove(key)
  \/ \E key \in Keys, value \in Values : LfuAdd(key, value)
  \/ \E key \in Keys : LfuGet(key)
  \/ \E key \in Keys : LfuRemove(key)

Spec == Init /\ [][Next]_vars

\* ------------------------------------------- calls from several threads
\* Each thread makes up to MaxCalls calls on one cache built before the
\* threads start.  Add and Remove run between Lock and Unlock, so their bodies
\* are single steps; Get runs between RLock and RUnlock, so the helper calls
\* of several Gets interleave.

InitConc ==
  /\ engine \in {"lru", "lfu"}
  /\ phase = "ready"
  /\ \E capacity \in Caps :
       /\ lru = (IF engine = "lru" THEN LruNew(capacity) ELSE NoLru)
       /\ lfu = (IF engine = "lfu" THEN LfuNew(capacity) ELSE NoLfu)
  /\ last = NoCall
  /\ mru = <<>>
  /\ uses = [k \in Keys |-> 0]
  /\ ref = [k \in Keys |-> ZeroV]
  /\ lock = Unlocked
  /\ pc = [t \in Threads |-> "idle"]
  /\ req = [t \in Threads |-> NoReq]
  /\ calls = [t \in Threads |-> 0]

\* a thread calls Add, Get or Remove
CallBegin(t, op, key, value) ==
  /\ phase = "ready" /\ pc[t] = "idle" /\ calls[t] < MaxCalls
  /\ calls' = [calls EXCEPT ![t] = @ + 1]
  /\ req' = [req EXCEPT ![t] = [NoReq EXCEPT !.op = op, !.key = key, !.value = value]]
  /\ pc' = [pc EXCEPT ![t] = "acquire"]
  /\ UNCHANGED <<engine, phase, lru, lfu, lock>>
  /\ UNCHANGED seqvars

\* c.lock.Lock() in Add and Remove
AcquireLock(t) ==
  /\ phase = "ready" /\ pc[t] = "acquire" /\ req[t].op \in {"Add", "Remove"}
  /\ lock.writer = 0 /\ lock.readers = {}
  /\ lock' = [lock EXCEPT !.writer = t]
  /\ pc' = [pc EXCEPT ![t] = "body"]
  /\ UNCHANGED <<engine, phase, lru, lfu, req, calls>>
  /\ UNCHANGED seqvars

\* c.lock.RLock() in Get
AcquireRLock(t) ==
  /\ phase = "ready" /\ pc[t] = "acquire" /\ req[t].op = "Get"
  /\ lock.writer = 0
  /\ lock' = [lock EXCEPT !.readers = @ \cup {t}]
  /\ pc' = [pc EXCEPT ![t] = "body"]
  /\ UNCHANGED <<engine, phase, lru, lfu, req, calls>>
  /\ UNCHANGED seqvars

\* the body of Add, under the exclusive lock
AddLocked(t) ==
  /\ phase = "ready" /\ pc[t] = "body" /\ req[t].op = "Add"
  /\ IF engine = "lru"
     THEN /\ LruFree(lru) # {}
          /\ lru' = LruCollect(LruAddBody(lru, req[t].key, req[t].value).c)
          /\ UNCHANGED <<lfu, phase>>
     ELSE /\ LfuFree(lfu) # {}
          /\ \E r \in {LfuAddBody(lfu, req[t].key, req[t].value)} :
               /\ lfu' = LfuCollect(r.c)
               /\ phase' = IF r.c.panicked THEN "panicked" ELSE phase
          /\ UNCHANGED lru
  /\ pc' = [pc EXCEPT ![t] = "unlock"]
  /\ UNCHANGED <<engine, lock, req, calls>>
  /\ UNCHANGED seqvars

\* the body of Remove, under the exclusive lock
RemoveLocked(t) ==
  /\ phase = "ready" /\ pc[t] = "body" /\ req[t].op = "Remove"
  /\ IF engine = "lru"
     THEN /\ lru' = LruCollect(LruRemoveBody(lru, req[t].key).c)
          /\ UNCHANGED <<lfu, phase>>
     ELSE /\ \E r \in {LfuRemoveBody(lfu, req[t].key)} :
               /\ lfu' = LfuCollect(r.c)
               /\ phase' = IF r.c.panicked THEN "panicked" ELSE phase
          /\ UNCHANGED lru
  /\ pc' = [pc EXCEPT ![t] = "unlock"]
  /\ UNCHANGED <<engine, lock, req, calls>>
  /\ UNCHANGED seqvars

\* Get: node, has := c.data[key]; on a hit the promotion begins (lru: the
\* test node == c.head of moveToFront; lfu: oldFreq := node.frequency)
GetLookup(t) ==
  /\ phase = "ready" /\ pc[t] = "body" /\ req[t].op = "Get"
  /\ LET node == IF engine = "lru" THEN lru.data[req[t].key] ELSE lfu.data[req[t].key]
     IN  IF node = Nil
         THEN /\ pc' = [pc EXCEPT ![t] = "unlock"]
              /\ UNCHANGED req
         ELSE IF engine = "lru"
         THEN /\ pc' = [pc EXCEPT ![t] = IF node = lru.head THEN "unlock" ELSE "unlink"]
              /\ req' = [req EXCEPT ![t].node = node]
         ELSE /\ pc' = [pc EXCEPT ![t] = "unlink"]
              /\ req' = [req EXCEPT ![t].node = node, ![t].oldFreq = lfu.frequency[node]]
  /\ UNCHANGED <<engine, phase, lru, lfu, lock, calls>>
  /\ UNCHANGED seqvars

\* Get: c.removeFromList(node) of moveToFront, or c.removeFromFrequency(node)
\* of incrementFrequency
GetUnlink(t) ==
  /\ phase = "ready" /\ pc[t] = "unlink"
  /\ IF engine = "lru"
     THEN /\ lru' = removeFromList(lru, req[t].node)
          /\ UNCHANGED <<lfu, phase>>
     ELSE /\ \E c \in {removeFromFrequency(lfu, req[t].node)} :
               /\ lfu' = c
               /\ phase' = IF c.panicked THEN "panicked" ELSE phase
          /\ UNCHANGED lru
  /\ pc' = [pc EXCEPT ![t] = "relink"]
  /\ UNCHANGED <<engine, lock, req, calls>>
  /\ UNCHANGED seqvars

\* Get: c.addToFront(node) of moveToFront, or node.frequency = newFreq and
\* c.addToFrequency(node, newFreq) of incrementFrequency
GetRelink(t) ==
  /\ phase = "ready" /\ pc[t] = "relink"
  /\ IF engine = "lru"
     THEN /\ lru' = addToFront(lru, req[t].node)
          /\ pc' = [pc EXCEPT ![t] = "unlock"]
          /\ UNCHANGED <<lfu, phase>>
     ELSE /\ \E c \in {setFrequency(lfu, req[t].node, req[t].oldFreq + 1)} :
               /\ lfu' = c
               /\ phase' = IF c.panicked THEN "panicked" ELSE phase
          /\ pc' = [pc EXCEPT ![t] = "minfreq"]
          /\ UNCHANGED lru
  /\ UNCHANGED <<engine, lock, req, calls>>
  /\ UNCHANGED seqvars

\* Get (lfu): the minFrequency update that ends incrementFrequency
GetAdvanceMin(t) ==
  /\ phase = "ready" /\ pc[t] = "minfreq"
  /\ lfu' = advanceMin(lfu, req[t].oldFreq, req[t].oldFreq + 1)
  /\ pc' = [pc EXCEPT ![t] = "unlock"]
  /\ UNCHANGED <<engine, phase, lru, lock, req, calls>>
  /\ UNCHANGED seqvars

\* the deferred c.lock.Unlock() or c.lock.RUnlock(): the call returns
Release(t) ==
  /\ phase = "ready" /\ pc[t] = "unlock"
  /\ lock' = IF req[t].op = "Get"
             THEN [lock EXCEPT !.readers = @ \ {t}]
             ELSE [lock EXCEPT !.writer = 0]
  /\ pc' = [pc EXCEPT ![t] = "idle"]
  /\ req' = [req EXCEPT ![t] = NoReq]
  /\ UNCHANGED <<engine, phase, lru, lfu, calls>>
  /\ UNCHANGED seqvars

NextConc ==
  \E t \in Threads :
    \/ \E key \in Keys, value \in Values : CallBegin(t, "Add", key, value)
    \/ \E key \in Keys : CallBegin(t, "Get", key, ZeroV)
    \/ \E key \in Keys : CallBegin(t, "Remove", key, ZeroV)
    \/ AcquireLock(t)
    \/ AcquireRLock(t)
    \/ AddLocked(t)
    \/ RemoveLocked(t)
    \/ GetLookup(t)
    \/ GetUnlink(t)
    \/ GetRelink(t)
    \/ GetAdvanceMin(t)
    \/ Release(t)

SpecConc == InitConc /\ [][NextConc]_vars

\* a step of a call that thread t has begun: the Go scheduler runs every
\* goroutine that can run, and a blocked Lock or RLock is granted once free
Proceed(t) ==
  \/ AcquireLock(t)
  \/ AcquireRLock(t)
  \/ AddLocked(t)
  \/ RemoveLocked(t)
  \/ GetLookup(t)
  \/ GetUnlink(t)
  \/ GetRelink(t)
  \/ GetAdvanceMin(t)
  \/ Release(t)

\* Proceed(t) is enabled: the guards of its steps, whose updates are total.
\* The program has not crashed, thread t is inside a call and, where it waits
\* at Lock or RLock, the lock can be granted.
CanProceed(t) ==
  /\ phase = "ready"
  /\ pc[t] # "idle"
  /\ (pc[t] = "acquire" /\ req[t].op = "Get") => lock.writer = 0
  /\ (pc[t] = "acquire" /\ req[t].op # "Get") =>
       (lock.writer = 0 /\ lock.readers = {})
  /\ (pc[t] = "body" /\ req[t].op = "Add") =>
       (IF engine = "lru" THEN LruFree(lru) # {} ELSE LfuFree(lfu) # {})

FairConc == SpecConc /\ \A t \in Threads : WF_vars(Proceed(t))

\* ------------------------------------------------------------- the claims

\* the cache in use, its index and its capacity
IndexKeys == IF engine = "lru" THEN LruKeys(lru) ELSE LfuKeys(lfu)
Capacity == IF engine = "lru" THEN lru.capacity ELSE lfu.capacity
StoredValue(k) ==
  IF engine = "lru" THEN lru.value[lru.data[k]] ELSE lfu.value[lfu.data[k]]

\* about the last call: the key was present, the index held capacity keys,
\* the keys it took out of the index, the keys it put in
Hit == last.key \in last.pre
Full == Cardinality(last.pre) >= Capacity
Victims == last.pre \ IndexKeys
Added == IndexKeys \ last.pre

\* what Get(k) would return now
GetNow(k) ==
  IF engine = "lru"
  THEN LET r == LruGetBody(lru, k)
       IN  [returned |-> TRUE, found |-> r.found, value |-> r.value]
  ELSE LET r == LfuGetBody(lfu, k)
       IN  [returned |-> ~r.c.panicked, found |-> r.found, value |-> r.value]

\* C1: for both engines and every capacity >= 1, after every completed Add
\* call the index holds at most capacity keys.
C1_CapacityBound ==
  (last.op = "Add" /\ last.returned) => Cardinality(IndexKeys) <= Capacity

C1_Witness ==
  /\ engine = "lfu" /\ last.op = "Add" /\ last.returned /\ last.evicted
  /\ Capacity >= 2 /\ Cardinality(IndexKeys) = Capacity

\* C2: in the LRU engine an Add of an absent key to a full cache removes
\* exactly the least recently used key (the last key of the reference
\* recency order); every other key stays, and the new key is present.
C2_LruEvictsLeastRecent ==
  (engine = "lru" /\ last.op = "Add" /\ ~Hit /\ Full)
    => /\ Victims = {last.expect}
       /\ last.expect # NoKey
       /\ Added = {last.key}

C2_Witness ==
  /\ engine = "lru" /\ last.op = "Add" /\ ~Hit /\ Full /\ Capacity >= 2
  /\ Cardinality(Victims) = 1
  /\ Cardinality(IndexKeys) = Capacity

\* C3: in the LFU engine an Add of an absent key to a full cache evicts a key
\* that had the smallest frequency among the present keys, and every key
\* that was not evicted can be retrieved afterwards.
C3_LfuEvictsLeastFrequent ==
  (engine = "lfu" /\ last.op = "Add" /\ ~Hit /\ Full)
    => /\ last.returned
       /\ Cardinality(Victims) = 1
       /\ Victims \subseteq last.least
       /\ \A k \in last.pre \ Victims :
            Promotable(lfu, k) => GetNow(k).returned /\ GetNow(k).found

\* C4: in the LFU engine, when several keys share the minimum frequency at a
\* capacity-triggered Add, the evicted key is the one that reached that
\* frequency earliest (the reference victim) and the others stay.
C4_LfuTieBreak ==
  (engine = "lfu" /\ last.op = "Add" /\ ~Hit /\ Full /\ Cardinality(last.least) >= 2)
    => /\ last.returned
       /\ Victims = {last.expect}

\* C5: after a successful construction every Get, Add and Remove returns
\* normally: no call aborts.
C5_NoAbort == last.op \in {"Add", "Get", "Remove"} => last.returned

\* the entries met walking next-links from n, up to nil or an entry met before
RECURSIVE LruWalk(_, _, _)
LruWalk(c, n, seen) ==
  IF n = Nil \/ n \in seen THEN <<>>
  ELSE <<n>> \o LruWalk(c, c.next[n], seen \cup {n})

\* the list from head is acyclic and ends at tail, it holds the entry of each
\* key of the index once and nothing else, and the index is within capacity
LruWellFormed(c) ==
  LET w == LruWalk(c, c.head, {})
  IN  /\ IF w = <<>>
         THEN c.head = Nil /\ c.tail = Nil
         ELSE c.next[w[Len(w)]] = Nil /\ c.tail = w[Len(w)]
      /\ Range(w) = {c.data[k] : k \in LruKeys(c)}
      /\ Len(w) = LruLen(c)
      /\ \A k \in LruKeys(c) : c.key[c.data[k]] = k
      /\ LruLen(c) <= c.capacity

\* thread t is between taking the lock and the deferred unlock
Executing(t) == pc[t] \in {"body", "unlink", "relink", "minfreq"}

\* C6: with several threads calling Get, Add and Remove on one LRU cache,
\* every state in which no call is in progress has a well-formed list and an
\* index within capacity, as in sequential use.
C6_ConcurrentListIntact ==
  (engine = "lru" /\ \A t \in Threads : pc[t] = "idle") => LruWellFormed(lru)

\* C7: while one thread executes the body of a Get, no other thread executes
\* the body of a Get, Add or Remove on the same cache.
C7_GetExclusive ==
  \A t, u \in Threads :
    (t # u /\ req[t].op = "Get" /\ Executing(t)) => ~Executing(u)

\* C8: for both engines an Add on a present key returns (false, true), stores
\* the new value so that the next Get returns it, promotes the entry exactly
\* as a Get hit would, removes no key and leaves the index size unchanged.
C8_Rewrite ==
  [][\A k \in Keys, v \in Values :
      (last'.op = "Add" /\ last'.key = k /\ last'.value = v /\ k \in IndexKeys)
       => /\ last'.returned
          /\ ~last'.evicted /\ last'.rewritten
          /\ IndexKeys' = IndexKeys
          /\ StoredValue(k)' = v
          /\ engine = "lru" =>
               lru' = LruCollect(LruGetBody([lru EXCEPT !.value[lru.data[k]] = v], k).c)
          /\ engine = "lfu" =>
               lfu' = LfuCollect(LfuGetBody([lfu EXCEPT !.value[lfu.data[k]] = v], k).c)
          /\ (engine = "lfu" => Promotable(lfu, k)')
               => /\ GetNow(k)'.returned
                  /\ GetNow(k)'.found
                  /\ GetNow(k)'.value = v]_vars

\* C9: the pair returned by Add is determined by the state before the call:
\* (false, true) iff the key was present, (true, false) iff it was absent and
\* the index was full, (false, false) iff it was absent and there was room.
C9_AddResult ==
  last.op = "Add"
    => /\ last.returned
       /\ <<last.evicted, last.rewritten>> =
            IF Hit THEN <<FALSE, TRUE>>
            ELSE IF Full THEN <<TRUE, FALSE>>
            ELSE <<FALSE, FALSE>>

\* C10: an Add that returns evicted=true has removed exactly one previously
\* present key (which then misses on Get, the index holding capacity keys),
\* an Add that returns evicted=false has removed none; no Add removes more
\* than one key.
C10_AtMostOneEviction ==
  last.op = "Add"
    => /\ Cardinality(Victims) <= 1
       /\ last.returned =>
            IF last.evicted
            THEN /\ Cardinality(Victims) = 1
                 /\ Cardinality(IndexKeys) = Capacity
                 /\ \A k \in Victims : GetNow(k).returned /\ ~GetNow(k).found
            ELSE Victims = {}

C10_Witness ==
  /\ engine = "lfu" /\ last.op = "Add" /\ last.returned /\ last.evicted
  /\ Capacity >= 2 /\ Cardinality(Victims) = 1 /\ last.key \in IndexKeys

\* the keys of a sequence of entries
KeysOf(c, w) == [i \in 1..Len(w) |-> c.key[w[i]]]

\* LRU eviction order: the keys from head to tail, the next victim last
LruOrder(c) == KeysOf(c, LruWalk(c, c.head, {}))

\* the keys of the bucket of frequency f, from its head to its tail
LfuBucket(c, f) ==
  LET b == c.frequencies[f]
  IN  IF ~b.present \/ b.head = NilIface THEN <<>>
      ELSE KeysOf(c, LruWalk(c, b.head, {}))

\* LFU eviction order: buckets by falling frequency, each from head to tail
RECURSIVE LfuOrderFrom(_, _)
LfuOrderFrom(c, f) ==
  IF f = 0 THEN <<>> ELSE LfuBucket(c, f) \o LfuOrderFrom(c, f - 1)

LfuOrder(c) == LfuOrderFrom(c, FreqTop)

\* C11: for both engines Remove(key) returns true iff the key was present.
\* When it was absent the whole cache state is unchanged; when it was present
\* a following Get of the key misses, and every other key is still present
\* with its value, its frequency and its place in the eviction order.
C11_RemoveFrame ==
  [][\A k \in Keys :
      (last'.op = "Remove" /\ last'.key = k)
       => /\ last'.returned
          /\ last'.removed = (k \in IndexKeys)
          /\ k \notin IndexKeys => (lru' = lru /\ lfu' = lfu)
          /\ k \in IndexKeys =>
               /\ IndexKeys' = IndexKeys \ {k}
               /\ GetNow(k)'.returned /\ ~GetNow(k)'.found
               /\ GetNow(k)'.value = ZeroV
               /\ \A j \in IndexKeys \ {k} :
                    IF engine = "lru"
                    THEN lru'.value[lru'.data[j]] = lru.value[lru.data[j]]
                    ELSE /\ lfu'.value[lfu'.data[j]] = lfu.value[lfu.data[j]]
                         /\ lfu'.frequency[lfu'.data[j]] = lfu.frequency[lfu.data[j]]
               /\ LruOrder(lru') = Without(LruOrder(lru), k)
               /\ LfuOrder(lfu') = Without(LfuOrder(lfu), k)]_vars

C11_Witness ==
  /\ engine = "lfu" /\ last.op = "Remove" /\ last.removed /\ last.returned
  /\ Cardinality(last.pre) >= 2 /\ IndexKeys = last.pre \ {last.key}

\* the index and the stored values are those of the reference map
AgreesWithRef ==
  /\ IndexKeys = {k \in Keys : ref[k] # ZeroV}
  /\ \A k \in IndexKeys : StoredValue(k) = ref[k]

\* C12: for both engines, with calls issued one at a time, Get(key) returns
\* what the reference map holds: (v, true) with v the value of the latest Add
\* when the key is present, (zero value, false) when it is absent; and a Get
\* changes neither the set of present keys nor any stored value.
C12_GetMatchesReference ==
  last.op = "Get"
    => /\ last.returned
       /\ last.found = (ref[last.key] # ZeroV)
       /\ last.got = ref[last.key]
       /\ IndexKeys = last.pre
       /\ AgreesWithRef

\* C13: for both engines NewCache(0) returns an error and no cache, and
\* NewCache(c) with c >= 1 returns no error and a cache with an empty index
\* of capacity c; no other call of the library ends in an error.
C13_OnlyConstructionFails ==
  /\ last.op = "NewCache" =>
       IF last.value = 0
       THEN last.err /\ phase = "failed" /\ lru = NoLru /\ lfu = NoLfu
       ELSE /\ ~last.err /\ phase = "ready"
            /\ IndexKeys = {} /\ Capacity = last.value
  /\ phase = "failed" => (last.op = "NewCache" /\ last.value = 0)
  /\ last.op \in {"Add", "Get", "Remove"} =>
       (~last.err /\ last.returned /\ phase = "ready")

\* C14: in an LFU cache of capacity 1 every Add of an absent key while one
\* entry is present returns evicted=true, removes that entry whatever its
\* frequency, and leaves exactly the new key present, with frequency 1, alone
\* in the frequency-1 bucket, and minFrequency = 1.
C14_CapacityOne ==
  (engine = "lfu" /\ Capacity = 1 /\ last.op = "Add" /\ ~Hit
     /\ Cardinality(last.pre) = 1)
    => /\ last.returned
       /\ last.evicted /\ ~last.rewritten
       /\ IndexKeys = {last.key}
       /\ lfu.frequency[lfu.data[last.key]] = 1
       /\ LfuBucket(lfu, 1) = <<last.key>>
       /\ lfu.minFrequency = 1

\* the frequencies that have a bucket in the map, and those of present entries
BucketFreqs(c) == {f \in Freqs : c.frequencies[f].present}
LiveFreqs(c) == {c.frequency[c.data[k]] : k \in LfuKeys(c)}

\* a Get, Add or Remove on the LFU cache has completed
LfuCompleted ==
  engine = "lfu" /\ phase = "ready" /\ last.op \in {"Add", "Get", "Remove"}

\* C15: in the LFU engine, after every completed Get, Add or Remove, the
\* frequencies map has a bucket for frequency f iff some present entry has
\* frequency f, so there are never more buckets than present entries.
C15_BucketIffEntry ==
  LfuCompleted
    => /\ BucketFreqs(lfu) = LiveFreqs(lfu)
       /\ Cardinality(BucketFreqs(lfu)) <= LfuLen(lfu)

\* C16: in the LFU engine, after every completed Get, Add or Remove that
\* leaves the cache non-empty, minFrequency is the smallest frequency of any
\* present entry.
C16_MinFrequencyIsMin ==
  (LfuCompleted /\ LfuKeys(lfu) # {})
    => /\ lfu.minFrequency \in LiveFreqs(lfu)
       /\ \A f \in LiveFreqs(lfu) : lfu.minFrequency <= f

\* C17: in the LFU engine, in every state reached by sequential calls in
\* which the index holds capacity keys, the bucket at minFrequency exists and
\* its list holds at least one present entry, so that evictLeastFrequent
\* removes an entry.
C17_MinBucketNonEmptyWhenFull ==
  (engine = "lfu" /\ phase = "ready" /\ LfuLen(lfu) = lfu.capacity)
    => /\ lfu.frequencies[lfu.minFrequency].present
       /\ LfuBucket(lfu, lfu.minFrequency) # <<>>
       /\ Range(LfuBucket(lfu, lfu.minFrequency)) \subseteq LfuKeys(lfu)
       /\ ~evictLeastFrequent(lfu).panicked
       /\ LfuLen(evictLeastFrequent(lfu)) = LfuLen(lfu) - 1

\* C18: in the LRU engine, after every completed Get, Add or Remove, walking
\* next-links from head visits each key of the index exactly once and nothing
\* else, ends at tail, and visits the keys in the order of their latest Get
\* hit or Add, most recent first; prev-links are the inverse of next-links;
\* head and tail are nil exactly when the index is empty.
C18_LruListIsRecencyOrder ==
  (engine = "lru" /\ phase = "ready")
    => LET w == LruWalk(lru, lru.head, {})
       IN  /\ LruWellFormed(lru)
           /\ LruOrder(lru) = mru
           /\ \A i \in 1..Len(w) :
                /\ lru.data[lru.key[w[i]]] = w[i]
                /\ lru.prev[w[i]] = IF i = 1 THEN Nil ELSE w[i - 1]
                /\ lru.next[w[i]] = IF i = Len(w) THEN Nil ELSE w[i + 1]
           /\ (lru.head = Nil) = (LruKeys(lru) = {})
           /\ (lru.tail = Nil) = (LruKeys(lru) = {})

C18_Witness ==
  /\ engine = "lru" /\ phase = "ready"
  /\ last.op = "Get" /\ last.found
  /\ Len(mru) >= 2 /\ mru[1] = last.key
  /\ lru.tail # lru.head /\ lru.key[lru.head] = last.key

\* the frequency field of the entry of a present key
FrequencyOf(c, k) == c.frequency[c.data[k]]

\* C19: in the LFU engine the frequency of an entry is 1 when it is inserted
\* and, for as long as its key stays in the index, never decreases, grows by
\* exactly 1 with each Get hit and each rewriting Add of its key, and is left
\* alone by every operation on another key.
C19_FrequencyMonotonic ==
  [][engine = "lfu" =>
      \A k \in Keys :
        /\ (k \notin LfuKeys(lfu) /\ k \in LfuKeys(lfu'))
             => FrequencyOf(lfu', k) = 1
        /\ (k \in LfuKeys(lfu) /\ k \in LfuKeys(lfu'))
             => /\ FrequencyOf(lfu', k) >= FrequencyOf(lfu, k)
                /\ FrequencyOf(lfu', k) =
                     IF last'.key = k /\ last'.op \in {"Get", "Add"}
                     THEN FrequencyOf(lfu, k) + 1
                     ELSE FrequencyOf(lfu, k)]_vars

C19_Witness ==
  /\ engine = "lfu" /\ phase = "ready"
  /\ last.op = "Get" /\ last.found /\ last.returned
  /\ FrequencyOf(lfu, last.key) = 3
  /\ \E k \in LfuKeys(lfu) : k # last.key /\ FrequencyOf(lfu, k) = 2

\* C20: with finitely many threads each making finitely many calls, under
\* fair scheduling every call that has begun eventually returns, and whenever
\* no call is in progress the lock is free.
\* Stated on finite runs: a thread inside a call is never left without a step
\* to take while the others are stopped (some thread can always proceed until
\* every call has returned), and the lock is free when no call is in progress.
C20_EveryCallReturns ==
  /\ (\A t \in Threads : pc[t] = "idle") \/ (\E t \in Threads : CanProceed(t))
  /\ (\A t \in Threads : pc[t] = "idle") => lock = Unlocked

=============================================================================
